---- MODULE Spec2Model ----
(***************************************************************************)
(* Model of feather's Player Digging packet handlers                       *)
(* (server/player/src/packet_handlers/digging.rs).                         *)
(*                                                                         *)
(* Numbers.  The code computes durations in f64 seconds.  Every duration   *)
(* is kept here as an exact integer count of 1/SecondScale seconds, with   *)
(* SecondScale = 15 * TPS, which makes the three per-tick increments       *)
(* (1/TPS)*(1/1.5)*m, (1/TPS)*(1/5) and (1/TPS)*(1/1.5) integers.          *)
(* Positions are the integer-valued points of the f64 coordinate space.    *)
(***************************************************************************)
EXTENDS Integers, Sequences, FiniteSets, TLC

(* ---------------------------------------------------------------------- *)
(* Bounds of the exploration                                               *)
(* ---------------------------------------------------------------------- *)
\* a tick pass is started only while every progress is below this many units
MaxProgress == 10
\* the tick counter stops advancing here
MaxTick == 23
\* no draw is started once this many arrows were spawned
MaxArrows == 1

(* ---------------------------------------------------------------------- *)
(* Option<T>: None is the empty sequence, Some(x) the one-element sequence *)
(* ---------------------------------------------------------------------- *)
None == <<>>
Some(x) == <<x>>
is_some(o) == o # <<>>
is_none(o) == o = <<>>
unwrap(o) == o[1]

(* ---------------------------------------------------------------------- *)
(* Entities, block positions, player positions                             *)
(* ---------------------------------------------------------------------- *)
Actors == {"p1", "p2"}

\* BlockPosition values the packets may name
Near == <<1, 0, 0>>
Edge == <<6, 0, 0>>
Far  == <<7, 0, 0>>
Void == <<0, -1, 0>>
Locations == {Near, Edge, Far, Void}
\* block positions whose chunk is loaded (Void lies below the world)
LoadedLocations == {Near, Edge, Far}

PlayerPositions == {<<0, 0, 0>>, <<1, 0, 0>>}

\* BlockPosition::position(): the same coordinates as a Position
block_position(location) == location

sq(n) == n * n
distance_squared_to(a, b) ==
    sq(a[1] - b[1]) + sq(a[2] - b[2]) + sq(a[3] - b[3])

MAX_DIG_RADIUS_SQUARED == 36
TPS == 20
SecondScale == 15 * TPS

(* ---------------------------------------------------------------------- *)
(* Block and item data tables                                              *)
(* ---------------------------------------------------------------------- *)
BlockKinds == {"air", "stone", "dirt", "snow", "torch"}

\* BlockId::default() / BlockId::air()
BlockId_air == "air"
BlockId_default == "air"

\* BlockKind::hardness(), in 1/SecondScale seconds (1.5 s, 0.5 s, 0.1 s, 0 s)
hardness(kind) ==
    CASE kind = "stone" -> 450
      [] kind = "dirt"  -> 150
      [] kind = "snow"  -> 30
      [] OTHER          -> 0

\* the literal 0.01 of handle_started_digging, in 1/SecondScale seconds
InstantHardness == 3

\* BlockKind::best_tool(): Option<Tool>
best_tool(kind) ==
    CASE kind = "stone" -> Some("pickaxe")
      [] kind = "dirt"  -> Some("shovel")
      [] kind = "snow"  -> Some("shovel")
      [] OTHER          -> None

\* BlockKind::best_tool_required()
best_tool_required(kind) == kind \in {"stone", "snow"}

Items == {"bow", "arrow", "spectral_arrow", "tipped_arrow",
          "wooden_pickaxe", "diamond_shovel", "stick"}

\* Item::tool(): Option<Tool>
tool(ty) ==
    CASE ty = "wooden_pickaxe" -> Some("pickaxe")
      [] ty = "diamond_shovel" -> Some("shovel")
      [] OTHER                 -> None

\* Item::tool_material(): Option<ToolMaterial>
tool_material(ty) ==
    CASE ty = "wooden_pickaxe" -> Some("wood")
      [] ty = "diamond_shovel" -> Some("diamond")
      [] OTHER                 -> None

\* ToolMaterial::dig_multiplier()
dig_multiplier(mat) ==
    CASE mat = "wood"    -> 2
      [] mat = "stone"   -> 4
      [] mat = "iron"    -> 6
      [] mat = "diamond" -> 8
      [] mat = "gold"    -> 12

ItemStack_new(ty, amount) == [ty |-> ty, amount |-> amount]

(* ---------------------------------------------------------------------- *)
(* Inventory: areas Offhand (1 slot), Hotbar (9 slots), Main               *)
(* ---------------------------------------------------------------------- *)
HotbarSlots == 0..8
MainSlots == 0..27

slot(area, index) == [area |-> area, slot |-> index]

EmptyInventory ==
    [Offhand |-> [i \in {0} |-> None],
     Hotbar  |-> [i \in HotbarSlots |-> None],
     Main    |-> [i \in MainSlots |-> None]]

\* Inventory::item_at(area, slot), for an index inside the area
item_at(inv, area, index) == inv[area][index]

\* Inventory::set_item_at / remove_item_at
set_item_at(inv, area, index, stack) ==
    [inv EXCEPT ![area][index] = Some(stack)]
remove_item_at(inv, area, index) ==
    [inv EXCEPT ![area][index] = None]

is_arrow_item(item) ==
    item \in {"arrow", "spectral_arrow", "tipped_arrow"}


\* first index of a range whose slot holds an arrow-family item, as the
\* loops of find_arrow meet it
first_arrow_slot(inv, area, slots) ==
    LET hits == {i \in slots :
                    /\ is_some(item_at(inv, area, i))
                    /\ is_arrow_item(unwrap(item_at(inv, area, i)).ty)}
    IN  IF hits = {} THEN None
        ELSE Some(CHOOSE i \in hits : \A j \in hits : i <= j)

\* the "off-hand" probe of find_arrow: the slot the code reads
offhand_probe(inv) == item_at(inv, "Hotbar", 0)

find_arrow(inv) ==
    LET offhand == offhand_probe(inv)
        hot     == first_arrow_slot(inv, "Hotbar", HotbarSlots)
        main    == first_arrow_slot(inv, "Main", MainSlots)
    IN  IF is_some(offhand) /\ is_arrow_item(unwrap(offhand).ty)
        THEN Some(<<slot("Offhand", 0), unwrap(offhand)>>)
        ELSE IF is_some(hot)
        THEN Some(<<slot("Hotbar", unwrap(hot)),
                    unwrap(item_at(inv, "Hotbar", unwrap(hot)))>>)
        ELSE IF is_some(main)
        THEN Some(<<slot("Main", unwrap(main)),
                    unwrap(item_at(inv, "Main", unwrap(main)))>>)
        ELSE None

(* ---------------------------------------------------------------------- *)
(* State                                                                   *)
(* ---------------------------------------------------------------------- *)
VARIABLES
    CanBreak,         \* entities holding the CanBreak component
    CanInstaBreak,    \* entities holding the CanInstaBreak component
    Position,         \* Position component of each player
    HeldItem,         \* HeldItem component: the selected hotbar index
    Inventory,        \* Inventory component of each player
    Digging,          \* Option<Digging> component of each player
    ItemTimedUse,     \* Option<ItemTimedUse> component of each player
    blocks,           \* block kind at each loaded block position
    disconnected,     \* players game.disconnect was called for
    tick_count,       \* game.tick_count
    entities,         \* arrow entities spawned so far
    arrow_to_consume, \* the local of the latest handle_shoot_bow call
    pending,          \* players the running progress pass has yet to visit
    pass_start,       \* history: the Digging components as that pass found them
    consumed_use,     \* history: the ItemTimedUse the latest step removed
    emitted,          \* events passed to game.handle by the latest step
    world_updates,    \* block changes made by the latest step
    last              \* the packet (or system step) handled latest

vars == <<CanBreak, CanInstaBreak, Position, HeldItem, Inventory, Digging,
          ItemTimedUse, blocks, disconnected, tick_count, entities,
          arrow_to_consume, pending, pass_start, consumed_use, emitted,
          world_updates, last>>

components == <<CanBreak, CanInstaBreak, Position, HeldItem>>

\* world.has::<C>(player)
has(component, player) == player \in component

\* world.remove::<Digging>(player)
remove(store, player) == [store EXCEPT ![player] = None]

\* world.add(player, component)
add(store, player, component) == [store EXCEPT ![player] = Some(component)]

\* game.block_at(pos): None outside loaded chunks
block_at(pos) == IF pos \in LoadedLocations THEN Some(blocks[pos]) ELSE None

unwrap_or_default(o) == IF is_some(o) THEN unwrap(o) ELSE BlockId_default

(* ---------------------------------------------------------------------- *)
(* Events                                                                  *)
(* ---------------------------------------------------------------------- *)
StartDiggingEvent(player) == [type |-> "StartDigging", player |-> player]

FinishDiggingEvent(player, digging) ==
    [type |-> "FinishDigging", player |-> player, digging |-> digging]

InventoryUpdateEvent(slots, player) ==
    [type |-> "InventoryUpdate", slots |-> slots, player |-> player]

ItemDropEvent(idx, stack, player) ==
    [type |-> "ItemDrop", slot |-> Some(idx), stack |-> stack,
     player |-> player]

EntitySpawnEvent(entity) == [type |-> "EntitySpawn", entity |-> entity]


(* ---------------------------------------------------------------------- *)
(* Block breaking                                                          *)
(* ---------------------------------------------------------------------- *)
BlockUpdateCause_Entity(player) == [entity |-> player]

\* game.set_block_at(world, pos, block, cause): fails outside loaded chunks
set_block_at_ok(pos) == pos \in LoadedLocations

\* variant: a failed set_block_at is ignored
dig_ignore_failure(player, pos) ==
    IF set_block_at_ok(pos)
    THEN /\ blocks' = [blocks EXCEPT ![pos] = BlockId_air]
         /\ world_updates' = <<[pos |-> pos, block |-> BlockId_air,
                                cause |-> BlockUpdateCause_Entity(player)]>>
         /\ UNCHANGED disconnected
    ELSE /\ world_updates' = <<>>
         /\ UNCHANGED <<blocks, disconnected>>

\* dig: sets the block to air, or disconnects the player when that fails
dig(player, pos) ==
    IF set_block_at_ok(pos)
    THEN /\ blocks' = [blocks EXCEPT ![pos] = BlockId_air]
         /\ world_updates' = <<[pos |-> pos, block |-> BlockId_air,
                                cause |-> BlockUpdateCause_Entity(player)]>>
         /\ UNCHANGED disconnected
    ELSE /\ disconnected' = disconnected \cup {player}
         /\ world_updates' = <<>>
         /\ UNCHANGED blocks

no_dig == /\ UNCHANGED <<blocks, disconnected>>
          /\ world_updates' = <<>>

(* ---------------------------------------------------------------------- *)
(* Started / cancelled / finished digging                                  *)
(* ---------------------------------------------------------------------- *)
\* variant: the radius of the next whole block, 7 * 7
too_far_loose(player, packet) ==
    distance_squared_to(block_position(packet.location), Position[player])
        > 49

\* the distance check of handle_started_digging
too_far(player, packet) ==
    distance_squared_to(block_position(packet.location), Position[player])
        > MAX_DIG_RADIUS_SQUARED

\* variant: the hardness of the block is not looked at
breaks_at_once_insta_only(player, packet) == has(CanInstaBreak, player)

\* the insta-break / zero-hardness test of handle_started_digging
breaks_at_once(player, packet) ==
    \/ has(CanInstaBreak, player)
    \/ hardness(unwrap_or_default(block_at(packet.location))) < InstantHardness

\* the Digging component inserted by handle_started_digging
new_digging(packet) ==
    [pos      |-> packet.location,
     time     |-> hardness(unwrap_or_default(block_at(packet.location))),
     progress |-> 0]

\* variant: the old component is left in place
delete_old_digging_skipped(player) == Digging

\* "Delete old `Digging`, if it exists"
delete_old_digging(player) == remove(Digging, player)

\* variant: a new dig carries the progress of the one it replaces
handle_started_digging_merge(player, packet) ==
    LET cleared == delete_old_digging(player)
        old     == Digging[player]
        fresh   == new_digging(packet)
    IN
    IF too_far(player, packet)
    THEN /\ Digging' = cleared
         /\ emitted' = <<>>
         /\ no_dig
    ELSE IF breaks_at_once(player, packet)
    THEN /\ Digging' = cleared
         /\ dig(player, packet.location)
         /\ emitted' = <<>>
    ELSE /\ Digging' = add(cleared, player,
                           IF is_some(old)
                           THEN [fresh EXCEPT !.progress = unwrap(old).progress]
                           ELSE fresh)
         /\ emitted' = <<StartDiggingEvent(player)>>
         /\ no_dig

handle_started_digging(player, packet) ==
    LET cleared == delete_old_digging(player) IN
    IF too_far(player, packet)
    THEN /\ Digging' = cleared
         /\ emitted' = <<>>
         /\ no_dig
    ELSE IF breaks_at_once(player, packet)
    THEN /\ Digging' = cleared
         /\ dig(player, packet.location)
         /\ emitted' = <<>>
    ELSE /\ Digging' = add(cleared, player, new_digging(packet))
         /\ emitted' = <<StartDiggingEvent(player)>>
         /\ no_dig

\* variant: the component is removed without the event
handle_cancelled_digging_silent(player) ==
    /\ Digging' = remove(Digging, player)
    /\ emitted' = <<>>
    /\ no_dig

handle_cancelled_digging(player) ==
    LET digging == Digging[player] IN
    /\ Digging' = remove(Digging, player)
    /\ emitted' = IF is_some(digging)
                  THEN <<FinishDiggingEvent(player, unwrap(digging))>>
                  ELSE <<>>
    /\ no_dig

\* variant: without a component the packet is always dropped
finished_record_strict(player, packet) == Digging[player]

\* the match at the head of handle_finished_digging: the record to finish,
\* or None where the function returns early
finished_record(player, packet) ==
    IF is_some(Digging[player]) THEN Digging[player]
    ELSE IF has(CanInstaBreak, player)
    THEN Some([pos |-> packet.location, time |-> 0, progress |-> 0])
    ELSE None

\* variant: the block is broken only once the progress has reached the time
handle_finished_digging_timed(player, packet) ==
    LET found == finished_record(player, packet) IN
    IF is_none(found)
    THEN /\ UNCHANGED Digging
         /\ emitted' = <<>>
         /\ no_dig
    ELSE LET digging == unwrap(found) IN
         IF digging.progress < digging.time
         THEN /\ UNCHANGED Digging
              /\ emitted' = <<>>
              /\ no_dig
         ELSE /\ Digging' = remove(Digging, player)
              /\ IF digging.pos # packet.location
                 THEN /\ emitted' = <<>>
                      /\ no_dig
                 ELSE /\ dig(player, digging.pos)
                      /\ emitted' = <<FinishDiggingEvent(player, digging)>>

handle_finished_digging(player, packet) ==
    LET found == finished_record(player, packet) IN
    IF is_none(found)
    THEN /\ UNCHANGED Digging
         /\ emitted' = <<>>
         /\ no_dig
    ELSE LET digging == unwrap(found) IN
         /\ Digging' = remove(Digging, player)
         /\ IF digging.pos # packet.location
            THEN /\ emitted' = <<>>
                 /\ no_dig
            ELSE /\ dig(player, digging.pos)
                 /\ emitted' = <<FinishDiggingEvent(player, digging)>>

\* variant: the capability is not checked
may_dig_always(player) == TRUE

\* the capability test of handle_digging
may_dig(player) == has(CanBreak, player)

handle_digging(player, packet) ==
    /\ IF ~may_dig(player)
       THEN /\ UNCHANGED Digging
            /\ emitted' = <<>>
            /\ no_dig
       ELSE CASE packet.status = "StartedDigging" ->
                     handle_started_digging(player, packet)
              [] packet.status = "CancelledDigging" ->
                     handle_cancelled_digging(player)
              [] packet.status = "FinishedDigging" ->
                     handle_finished_digging(player, packet)
    /\ UNCHANGED <<Inventory, ItemTimedUse, entities, arrow_to_consume>>


(* ---------------------------------------------------------------------- *)
(* Progress advancement                                                    *)
(* ---------------------------------------------------------------------- *)
\* InventoryExt::item_in_main_hand / item_at(Area::Hotbar, held_item.0)
item_in_main_hand(player) == item_at(Inventory[player], "Hotbar", HeldItem[player])

\* Option::map(|item| item.ty.tool()).flatten()
held_tool(main_hand) ==
    IF is_some(main_hand) THEN tool(unwrap(main_hand).ty) ELSE None

\* variant: the two hindrance factors exchanged
multiplier_swapped(block, main_hand) ==
    IF best_tool(block) = held_tool(main_hand) /\ is_some(best_tool(block))
    THEN <<2 * dig_multiplier(unwrap(tool_material(unwrap(main_hand).ty))), 3>>
    ELSE IF best_tool_required(block)
    THEN <<2, 3>>
    ELSE <<1, 5>>

\* the multiplier of advance_dig_progress as the fraction <<num, den>>
multiplier(block, main_hand) ==
    IF best_tool(block) = held_tool(main_hand) /\ is_some(best_tool(block))
    THEN <<2 * dig_multiplier(unwrap(tool_material(unwrap(main_hand).ty))), 3>>
    ELSE IF best_tool_required(block)
    THEN <<1, 5>>
    ELSE <<2, 3>>

\* (1.0 / TPS as f64) * multiplier, in 1/SecondScale seconds
progress_step(digging, main_hand) ==
    LET block == unwrap_or_default(block_at(digging.pos))
        m     == multiplier(block, main_hand)
    IN  ((SecondScale \div TPS) * m[1]) \div m[2]

\* the closure of advance_dig_progress applied to one entity
advanced(digging, main_hand) ==
    [digging EXCEPT !.progress = @ + progress_step(digging, main_hand)]

\* value of pass_start while no pass is running
NoPass == [p \in Actors |-> None]

\* the system starts a pass over the entities holding a Digging component
advance_dig_progress ==
    /\ pending = {}
    /\ \A p \in Actors :
          is_some(Digging[p]) => unwrap(Digging[p]).progress < MaxProgress
    /\ pending' = {p \in Actors : is_some(Digging[p])}
    /\ pass_start' = Digging
    /\ last' = [player |-> "none", status |-> "advance_dig_progress",
                location |-> <<>>]
    /\ emitted' = <<>>
    /\ world_updates' = <<>>
    /\ UNCHANGED <<components, Inventory, Digging, ItemTimedUse, blocks,
                   disconnected, tick_count, entities, arrow_to_consume,
                   consumed_use>>

\* variant: the closure is not confined to its own entity and advances
\* every component the pass has not yet visited
advance_one_sweep(player) ==
    /\ player \in pending
    /\ Digging' = [q \in Actors |->
                       IF q \in pending
                       THEN Some(advanced(unwrap(Digging[q]),
                                          item_in_main_hand(q)))
                       ELSE Digging[q]]
    /\ pending' = pending \ {player}
    /\ pass_start' = IF pending' = {} THEN NoPass ELSE pass_start
    /\ last' = [player |-> player, status |-> "advance_one", location |-> <<>>]
    /\ emitted' = <<>>
    /\ world_updates' = <<>>
    /\ UNCHANGED <<components, Inventory, ItemTimedUse, blocks,
                   disconnected, tick_count, entities, arrow_to_consume,
                   consumed_use>>

\* par_for_each_mut: the entities of the pass are visited in any order
advance_one(player) ==
    /\ player \in pending
    /\ Digging' = [Digging EXCEPT ![player] =
                       Some(advanced(unwrap(@), item_in_main_hand(player)))]
    /\ pending' = pending \ {player}
    /\ pass_start' = IF pending' = {} THEN NoPass ELSE pass_start
    /\ last' = [player |-> player, status |-> "advance_one", location |-> <<>>]
    /\ emitted' = <<>>
    /\ world_updates' = <<>>
    /\ UNCHANGED <<components, Inventory, ItemTimedUse, blocks,
                   disconnected, tick_count, entities, arrow_to_consume,
                   consumed_use>>

(* ---------------------------------------------------------------------- *)
(* Dropping items                                                          *)
(* ---------------------------------------------------------------------- *)
\* variant: a full-stack drop reports a single item
drop_amount_single(packet, stack) ==
    IF stack.amount = 0 THEN 0 ELSE 1

\* amnt of handle_drop_item_stack
drop_amount(packet, stack) ==
    IF packet.status = "DropItem"
    THEN (IF stack.amount = 0 THEN 0 ELSE 1)
    ELSE stack.amount

\* variant: a single-item drop always writes the decremented stack back
drop_remainder_decrement(inventory, held_item, packet, stack) ==
    IF packet.status = "DropItem" /\ stack.amount > 0
    THEN set_item_at(inventory, "Hotbar", held_item,
             ItemStack_new(stack.ty, stack.amount - 1))
    ELSE remove_item_at(inventory, "Hotbar", held_item)

\* the inventory as the match of handle_drop_item_stack leaves it
drop_remainder(inventory, held_item, packet, stack) ==
    IF packet.status = "DropItem" /\ stack.amount > 1
    THEN set_item_at(inventory, "Hotbar", held_item,
             ItemStack_new(stack.ty, stack.amount - 1))
    ELSE remove_item_at(inventory, "Hotbar", held_item)

handle_drop_item_stack(player, packet) ==
    LET held_item == HeldItem[player]
        inventory == Inventory[player]
        held      == item_at(inventory, "Hotbar", held_item)
        idx       == slot("Hotbar", held_item)
    IN
    /\ IF is_none(held)
       THEN /\ UNCHANGED Inventory
            /\ emitted' = <<>>
       ELSE LET stack == unwrap(held)
                amnt  == drop_amount(packet, stack)
                after == drop_remainder(inventory, held_item, packet, stack)
            IN  /\ Inventory' = [Inventory EXCEPT ![player] = after]
                /\ emitted' =
                      <<InventoryUpdateEvent(<<idx>>, player)>> \o
                      (IF amnt # 0
                       THEN <<ItemDropEvent(idx, ItemStack_new(stack.ty, amnt),
                                            player)>>
                       ELSE <<>>)
    /\ no_dig
    /\ UNCHANGED <<Digging, ItemTimedUse, entities, arrow_to_consume>>

(* ---------------------------------------------------------------------- *)
(* Consuming items: shooting the bow                                       *)
(* ---------------------------------------------------------------------- *)
MAX_TIME_HELD == 20

\* variant: the clamp is left out
time_held_unclamped(tick_start) == tick_count - tick_start

\* time_held of handle_shoot_bow, after the clamp
time_held(tick_start) ==
    IF tick_count - tick_start > MAX_TIME_HELD
    THEN MAX_TIME_HELD
    ELSE tick_count - tick_start

\* the arrow entity built by handle_shoot_bow; the velocity is
\* compute_projectile_velocity(direction, charge_from_ticks_held(t), 0.0, rng)
arrow_entity(player, ticks) ==
    [id        |-> Len(entities) + 1,
     position  |-> [feet |-> Position[player], up |-> "PLAYER_EYE_HEIGHT"],
     held_for  |-> ticks]

\* variant: a missing ItemTimedUse counts as a draw begun at tick 0
handle_shoot_bow_unchecked(player) ==
    LET timed_use == ItemTimedUse[player]
        start     == IF is_none(timed_use) THEN 0
                     ELSE unwrap(timed_use).tick_start
        entity    == arrow_entity(player, time_held(start))
    IN
    /\ arrow_to_consume' = find_arrow(Inventory[player])
    /\ ItemTimedUse' = remove(ItemTimedUse, player)
    /\ entities' = Append(entities, entity)
    /\ emitted' = <<EntitySpawnEvent(entity)>>

\* variant: the ItemTimedUse component is left on the player
handle_shoot_bow_keep(player) ==
    LET timed_use == ItemTimedUse[player] IN
    /\ arrow_to_consume' = find_arrow(Inventory[player])
    /\ IF is_none(timed_use)
       THEN /\ UNCHANGED <<ItemTimedUse, entities>>
            /\ emitted' = <<>>
       ELSE LET entity ==
                    arrow_entity(player, time_held(unwrap(timed_use).tick_start))
            IN  /\ UNCHANGED ItemTimedUse
                /\ entities' = Append(entities, entity)
                /\ emitted' = <<EntitySpawnEvent(entity)>>

handle_shoot_bow(player) ==
    LET timed_use == ItemTimedUse[player] IN
    /\ arrow_to_consume' = find_arrow(Inventory[player])
    /\ IF is_none(timed_use)
       THEN /\ UNCHANGED <<ItemTimedUse, entities>>
            /\ emitted' = <<>>
       ELSE LET entity ==
                    arrow_entity(player, time_held(unwrap(timed_use).tick_start))
            IN  /\ ItemTimedUse' = remove(ItemTimedUse, player)
                /\ entities' = Append(entities, entity)
                /\ emitted' = <<EntitySpawnEvent(entity)>>

handle_consume_item(player, packet) ==
    LET used_item == item_in_main_hand(player) IN
    /\ IF is_some(used_item) /\ unwrap(used_item).ty = "bow"
       THEN handle_shoot_bow(player)
       ELSE /\ UNCHANGED <<ItemTimedUse, entities, arrow_to_consume>>
            /\ emitted' = <<>>
    /\ no_dig
    /\ UNCHANGED <<Inventory, Digging>>


(* ---------------------------------------------------------------------- *)
(* Packet dispatch                                                         *)
(* ---------------------------------------------------------------------- *)
PlayerDigging(status, location) == [status |-> status, location |-> location]

\* handle_player_digging, for one valid (player, packet) of the buffer
handle_player_digging(player, packet) ==
    /\ pending = {}
    /\ player \notin disconnected
    /\ last' = [player |-> player, status |-> packet.status,
                location |-> packet.location]
    /\ UNCHANGED <<components, tick_count, pending, pass_start>>
    /\ CASE packet.status \in {"StartedDigging", "FinishedDigging",
                               "CancelledDigging"} ->
                handle_digging(player, packet)
         [] packet.status \in {"DropItem", "DropItemStack"} ->
                handle_drop_item_stack(player, packet)
         [] packet.status = "ConsumeItem" ->
                handle_consume_item(player, packet)
         [] OTHER ->
                /\ emitted' = <<>>
                /\ no_dig
                /\ UNCHANGED <<Inventory, Digging, ItemTimedUse, entities,
                               arrow_to_consume>>
    /\ consumed_use' = IF is_none(ItemTimedUse'[player])
                       THEN ItemTimedUse[player]
                       ELSE None

StartedDigging(player, location) ==
    handle_player_digging(player, PlayerDigging("StartedDigging", location))
CancelledDigging(player, location) ==
    handle_player_digging(player, PlayerDigging("CancelledDigging", location))
FinishedDigging(player, location) ==
    handle_player_digging(player, PlayerDigging("FinishedDigging", location))
DropItem(player, location) ==
    handle_player_digging(player, PlayerDigging("DropItem", location))
DropItemStack(player, location) ==
    handle_player_digging(player, PlayerDigging("DropItemStack", location))
ConsumeItem(player, location) ==
    handle_player_digging(player, PlayerDigging("ConsumeItem", location))
SwapItemInHand(player, location) ==
    handle_player_digging(player, PlayerDigging("SwapItemInHand", location))

(* ---------------------------------------------------------------------- *)
(* The surrounding server                                                  *)
(* ---------------------------------------------------------------------- *)
\* the use-item system attaches ItemTimedUse when a player starts a draw
begin_timed_use(player) ==
    /\ pending = {}
    /\ player \notin disconnected
    /\ is_none(ItemTimedUse[player])
    /\ Len(entities) < MaxArrows
    /\ ItemTimedUse' = add(ItemTimedUse, player, [tick_start |-> tick_count])
    /\ last' = [player |-> player, status |-> "begin_timed_use",
                location |-> <<>>]
    /\ emitted' = <<>>
    /\ world_updates' = <<>>
    /\ UNCHANGED <<components, Inventory, Digging, blocks, disconnected,
                   tick_count, entities, arrow_to_consume, pending,
                   pass_start>>
    /\ consumed_use' = None

\* the tick loop advances game.tick_count
next_tick ==
    /\ pending = {}
    /\ tick_count < MaxTick
    /\ tick_count' = tick_count + 1
    /\ last' = [player |-> "none", status |-> "next_tick", location |-> <<>>]
    /\ emitted' = <<>>
    /\ world_updates' = <<>>
    /\ UNCHANGED <<components, Inventory, Digging, ItemTimedUse, blocks,
                   disconnected, entities, arrow_to_consume, pending,
                   pass_start>>
    /\ consumed_use' = None

(* ---------------------------------------------------------------------- *)
(* Initial states                                                          *)
(* ---------------------------------------------------------------------- *)
put(inv, area, index, ty, amount) ==
    set_item_at(inv, area, index, ItemStack_new(ty, amount))

\* hotbar 0: wooden pickaxe, hotbar 1: diamond shovel, hotbar 2: empty
DigKit ==
    put(put(EmptyInventory, "Hotbar", 0, "wooden_pickaxe", 1),
        "Hotbar", 1, "diamond_shovel", 1)

InitialBlocks ==
    [l \in LoadedLocations |->
        CASE l = Near -> "torch" [] l = Edge -> "dirt" [] l = Far -> "stone"]

InitCommon ==
    /\ CanBreak \in SUBSET Actors
    /\ CanInstaBreak \in SUBSET Actors
    /\ Digging = [p \in Actors |-> None]
    /\ ItemTimedUse = [p \in Actors |-> None]
    /\ blocks \in [LoadedLocations -> BlockKinds]
    /\ disconnected = {}
    /\ tick_count \in {0, MaxTick - 2}
    /\ entities = <<>>
    /\ arrow_to_consume = None
    /\ pending = {}
    /\ pass_start = NoPass
    /\ consumed_use = None
    /\ emitted = <<>>
    /\ world_updates = <<>>
    /\ last = [player |-> "none", status |-> "none", location |-> <<>>]

Init ==
    /\ InitCommon
    /\ blocks = InitialBlocks
    /\ tick_count = 0
    /\ Position \in [Actors -> PlayerPositions]
    /\ HeldItem \in [Actors -> {0, 1, 2}]
    /\ HeldItem["p2"] = 2
    /\ Inventory = [p \in Actors |-> DigKit]

Next ==
    \/ \E p \in Actors, l \in Locations : StartedDigging(p, l)
    \/ \E p \in Actors, l \in {Near} : CancelledDigging(p, l)
    \/ \E p \in Actors, l \in Locations : FinishedDigging(p, l)
    \/ advance_dig_progress
    \/ \E p \in Actors : advance_one(p)

Spec == Init /\ [][Next]_vars


(* ---------------------------------------------------------------------- *)
(* The item handlers: dropping and shooting                                *)
(* ---------------------------------------------------------------------- *)
with_slot(inv, area, index, content) ==
    [inv EXCEPT ![area][index] = content]

\* hotbar 1: a bow, hotbar 4: a stack of amount 0; arrows here and there
BowKits ==
    { with_slot(with_slot(with_slot(with_slot(
          put(put(EmptyInventory, "Hotbar", 1, "bow", 1),
              "Hotbar", 4, "stick", 0),
          "Offhand", 0, o), "Hotbar", 0, h0), "Hotbar", 3, h3), "Main", 27, m) :
        o  \in {None, Some(ItemStack_new("arrow", 2))},
        h0 \in {None, Some(ItemStack_new("tipped_arrow", 1)),
                Some(ItemStack_new("stick", 1))},
        h3 \in {None, Some(ItemStack_new("spectral_arrow", 3))},
        m  \in {None, Some(ItemStack_new("arrow", 1))} }

InitItems ==
    /\ InitCommon
    /\ blocks = InitialBlocks
    /\ tick_count = MaxTick - 2
    /\ CanInstaBreak = {}
    /\ CanBreak = Actors
    /\ Position = [p \in Actors |-> <<0, 0, 0>>]
    /\ HeldItem \in [Actors -> {0, 1, 3, 4}]
    /\ HeldItem["p2"] = 1
    /\ Inventory \in [Actors -> BowKits]
    /\ Inventory["p2"] = put(put(EmptyInventory, "Hotbar", 1, "bow", 1),
                             "Hotbar", 4, "stick", 0)

NextItems ==
    \/ \E p \in Actors : DropItem(p, Near)
    \/ \E p \in Actors : DropItemStack(p, Near)
    \/ \E p \in Actors : ConsumeItem(p, Near)
    \/ \E p \in Actors : SwapItemInHand(p, Near)
    \/ \E p \in Actors : begin_timed_use(p)
    \/ next_tick

SpecItems == InitItems /\ [][NextItems]_vars

(* ---------------------------------------------------------------------- *)
(* Drawing and releasing the bow over many ticks                           *)
(* ---------------------------------------------------------------------- *)
\* hotbar 0: a bow, hotbar 1: empty; one arrow in the main inventory
ArcherKit ==
    put(put(EmptyInventory, "Hotbar", 0, "bow", 1), "Main", 0, "arrow", 1)

InitCharge ==
    /\ InitCommon
    /\ blocks = InitialBlocks
    /\ tick_count = 0
    /\ CanBreak = Actors
    /\ CanInstaBreak = {}
    /\ Position = [p \in Actors |-> <<0, 0, 0>>]
    /\ HeldItem \in [Actors -> {0, 1}]
    /\ HeldItem["p2"] = 1
    /\ Inventory = [p \in Actors |-> ArcherKit]

NextCharge ==
    \/ \E p \in Actors : ConsumeItem(p, Near)
    \/ \E p \in Actors : begin_timed_use(p)
    \/ next_tick

SpecCharge == InitCharge /\ [][NextCharge]_vars

(* ---------------------------------------------------------------------- *)
(* Digging a soft block: the progress can pass the required time           *)
(* ---------------------------------------------------------------------- *)
\* a snow block next to the players, dirt and stone further away
SnowyBlocks ==
    [l \in LoadedLocations |->
        CASE l = Near -> "snow" [] l = Edge -> "dirt" [] l = Far -> "stone"]

InitSnow ==
    /\ InitCommon
    /\ blocks = SnowyBlocks
    /\ tick_count = 0
    /\ CanBreak = Actors
    /\ CanInstaBreak \in SUBSET {"p2"}
    /\ Position \in [Actors -> PlayerPositions]
    /\ Position["p1"] = <<0, 0, 0>>
    /\ HeldItem \in [Actors -> {0, 1, 2}]
    /\ HeldItem["p2"] = 2
    /\ Inventory = [p \in Actors |-> DigKit]

SpecSnow == InitSnow /\ [][Next]_vars


(* ====================================================================== *)
(* Properties                                                              *)
(* ====================================================================== *)
\* the step just taken handled a packet of this status from this player
Handled(p, status) == last'.player = p /\ last'.status = status

\* hardness the handlers see at a block position (default block if unloaded)
SeenHardness(l) == IF l \in LoadedLocations THEN hardness(blocks[l]) ELSE 0

InRange(p, l) ==
    sq(l[1] - Position[p][1]) + sq(l[2] - Position[p][2])
        + sq(l[3] - Position[p][3]) <= 36

NoDigEvent(events) ==
    \A i \in 1..Len(events) :
        events[i].type \notin {"StartDigging", "FinishDigging"}

\* the step set block l to air on behalf of p, and nothing else in the world
BrokeBlock(p, l) ==
    /\ l \in LoadedLocations
    /\ blocks' = [blocks EXCEPT ![l] = "air"]
    /\ world_updates' = <<[pos |-> l, block |-> "air", cause |-> [entity |-> p]]>>

(* C1: for an actor with break capability holding a Digging record with     *)
(* target P, a finish-dig packet for a location Q # P breaks no block,      *)
(* leaves the record (target, time, progress) in place and emits nothing.   *)
C1_MismatchedFinishKeepsRecord ==
    [][\A p \in Actors :
          ( /\ Handled(p, "FinishedDigging")
            /\ p \in CanBreak
            /\ is_some(Digging[p])
            /\ unwrap(Digging[p]).pos # last'.location )
          => ( /\ Digging'[p] = Digging[p]
               /\ blocks' = blocks
               /\ emitted' = <<>> )]_vars

(* C2: a cancel-dig, or a finish-dig for the record's own target, handled   *)
(* while the actor holds a Digging record emits exactly one FinishDigging   *)
(* for that actor, carrying the record as it was just before its removal;   *)
(* a cancel-dig without a record emits nothing.                             *)
C2_FinishEventOncePerAttempt ==
    [][\A p \in Actors :
          /\ ( Handled(p, "CancelledDigging") /\ p \in CanBreak )
             => IF is_some(Digging[p])
                THEN /\ emitted' = <<[type |-> "FinishDigging", player |-> p,
                                      digging |-> unwrap(Digging[p])]>>
                     /\ Digging'[p] = None
                ELSE /\ emitted' = <<>>
                     /\ Digging'[p] = None
          /\ ( /\ Handled(p, "FinishedDigging")
               /\ p \in CanBreak
               /\ is_some(Digging[p])
               /\ unwrap(Digging[p]).pos = last'.location )
             => /\ emitted' = <<[type |-> "FinishDigging", player |-> p,
                                 digging |-> unwrap(Digging[p])]>>
                /\ Digging'[p] = None]_vars

\* a cancel has just emitted the record of a dig that had made progress
C2_Witness ==
    \E p \in Actors :
        /\ last.player = p
        /\ last.status = "CancelledDigging"
        /\ Len(emitted) = 1
        /\ emitted[1].type = "FinishDigging"
        /\ emitted[1].player = p
        /\ emitted[1].digging.progress > 0
        /\ is_none(Digging[p])

(* C3: for an actor without break capability every start-dig, finish-dig    *)
(* and cancel-dig packet is a no-op: no Digging record changes, no block    *)
(* changes, nobody is disconnected and nothing is emitted, insta-break      *)
(* capability or not.                                                       *)
C3_NoBreakCapabilityNoOp ==
    [][\A p \in Actors :
          ( /\ last'.player = p
            /\ last'.status \in {"StartedDigging", "FinishedDigging",
                                 "CancelledDigging"}
            /\ p \notin CanBreak )
          => ( /\ Digging' = Digging
               /\ blocks' = blocks
               /\ disconnected' = disconnected
               /\ world_updates' = <<>>
               /\ emitted' = <<>> )]_vars

\* an insta-break actor without break capability sent a start-dig in range
C3_Witness ==
    \E p \in Actors :
        /\ last.player = p
        /\ last.status = "StartedDigging"
        /\ p \notin CanBreak
        /\ p \in CanInstaBreak
        /\ InRange(p, last.location)
        /\ last.location \in LoadedLocations
        /\ blocks[last.location] # "air"

(* C4: when an arrow-family item lies in the off-hand slot and another in   *)
(* hotbar slot 3, the arrow search of a bow release selects the off-hand    *)
(* stack: the off-hand slot index together with the off-hand slot's stack.  *)
C4_OffhandArrowFirst ==
    \A p \in Actors :
        ( /\ last.player = p
          /\ last.status = "ConsumeItem"
          /\ is_some(Inventory[p].Hotbar[HeldItem[p]])
          /\ unwrap(Inventory[p].Hotbar[HeldItem[p]]).ty = "bow"
          /\ is_some(Inventory[p].Offhand[0])
          /\ unwrap(Inventory[p].Offhand[0]).ty
                \in {"arrow", "spectral_arrow", "tipped_arrow"}
          /\ is_some(Inventory[p].Hotbar[3])
          /\ unwrap(Inventory[p].Hotbar[3]).ty
                \in {"arrow", "spectral_arrow", "tipped_arrow"} )
        => arrow_to_consume =
              Some(<<[area |-> "Offhand", slot |-> 0],
                     unwrap(Inventory[p].Offhand[0])>>)

(* C5: a start-dig packet for a block farther than the break radius         *)
(* (squared distance > 36) leaves the actor without Digging record, emits   *)
(* no StartDigging or FinishDigging and breaks no block, whatever the       *)
(* block's hardness and the actor's insta-break capability.                 *)
C5_TooFarRejected ==
    [][\A p \in Actors :
          ( /\ Handled(p, "StartedDigging")
            /\ ~InRange(p, last'.location) )
          => ( /\ is_none(Digging'[p])
               /\ NoDigEvent(emitted')
               /\ blocks' = blocks
               /\ world_updates' = <<>>
               /\ disconnected' = disconnected )]_vars

\* an insta-break actor with break capability aimed at a hard block too far
C5_Witness ==
    \E p \in Actors :
        /\ last.player = p
        /\ last.status = "StartedDigging"
        /\ p \in CanBreak
        /\ p \in CanInstaBreak
        /\ ~InRange(p, last.location)
        /\ blocks[last.location] = "stone"
        /\ is_none(Digging[p])


\* what a start-dig in range must do when it does not break at once
StartsRecord(p, l) ==
    /\ Digging'[p] = Some([pos |-> l, time |-> SeenHardness(l), progress |-> 0])
    /\ emitted' = <<[type |-> "StartDigging", player |-> p]>>
    /\ blocks' = blocks
    /\ world_updates' = <<>>
    /\ disconnected' = disconnected

(* C6 as stated: for an actor with break capability and a start-dig target  *)
(* in range, hardness < 0.01 or insta-break capability means the block is   *)
(* set to empty on behalf of the actor, no Digging record remains and no    *)
(* StartDigging is emitted; otherwise the record {target, hardness, 0} is   *)
(* created and exactly one StartDigging is emitted.                         *)
C6_ImmediateBreakAlwaysEmpties ==
    [][\A p \in Actors :
          ( /\ Handled(p, "StartedDigging")
            /\ p \in CanBreak
            /\ InRange(p, last'.location) )
          => IF SeenHardness(last'.location) < 3 \/ p \in CanInstaBreak
             THEN /\ BrokeBlock(p, last'.location)
                  /\ is_none(Digging'[p])
                  /\ NoDigEvent(emitted')
             ELSE StartsRecord(p, last'.location)]_vars

(* C6 amended: as C6, except that the immediate break empties the block     *)
(* only where the target's region is loaded; on an unloaded target no block *)
(* changes and the actor is disconnected.  In both cases no Digging record  *)
(* remains and no StartDigging is emitted.                                  *)
C6_ImmediateBreakOrRecord ==
    [][\A p \in Actors :
          ( /\ Handled(p, "StartedDigging")
            /\ p \in CanBreak
            /\ InRange(p, last'.location) )
          => IF SeenHardness(last'.location) < 3 \/ p \in CanInstaBreak
             THEN /\ IF last'.location \in LoadedLocations
                     THEN /\ BrokeBlock(p, last'.location)
                          /\ disconnected' = disconnected
                     ELSE /\ blocks' = blocks
                          /\ world_updates' = <<>>
                          /\ disconnected' = disconnected \cup {p}
                  /\ is_none(Digging'[p])
                  /\ NoDigEvent(emitted')
             ELSE StartsRecord(p, last'.location)]_vars

\* an actor without insta-break has just broken a loaded block at once
C6_Witness ==
    \E p \in Actors :
        /\ last.player = p
        /\ last.status = "StartedDigging"
        /\ p \in CanBreak
        /\ p \notin CanInstaBreak
        /\ world_updates =
              <<[pos |-> Near, block |-> "air", cause |-> [entity |-> p]]>>
        /\ is_none(Digging[p])
        /\ emitted = <<>>

C8_FinishWithoutRecord ==
    [][\A p \in Actors :
          ( /\ Handled(p, "FinishedDigging")
            /\ p \in CanBreak
            /\ is_none(Digging[p]) )
          => IF p \in CanInstaBreak
             THEN /\ Digging' = Digging
                  /\ IF last'.location \in LoadedLocations
                     THEN /\ BrokeBlock(p, last'.location)
                          /\ disconnected' = disconnected
                     ELSE /\ blocks' = blocks
                          /\ world_updates' = <<>>
                          /\ disconnected' = disconnected \cup {p}
             ELSE /\ Digging' = Digging
                  /\ blocks' = blocks
                  /\ world_updates' = <<>>
                  /\ disconnected' = disconnected
                  /\ emitted' = <<>>]_vars

\* an insta-break actor has broken the stone block by a bare finish-dig
C8_Witness ==
    \E p \in Actors :
        /\ last.player = p
        /\ last.status = "FinishedDigging"
        /\ p \in CanBreak
        /\ p \in CanInstaBreak
        /\ last.location = Far
        /\ world_updates =
              <<[pos |-> Far, block |-> "air", cause |-> [entity |-> p]]>>
        /\ is_none(Digging[p])

(* C9: while an actor's Digging record is present its progress never        *)
(* decreases and its target never changes, over every step; the one         *)
(* exception is a start-dig of that actor, which replaces the record by a   *)
(* new one for the packet's location with progress 0.                       *)
C9_ProgressMonotoneTargetFixed ==
    [][\A p \in Actors :
          ( is_some(Digging[p]) /\ is_some(Digging'[p]) )
          => \/ /\ unwrap(Digging'[p]).pos = unwrap(Digging[p]).pos
                /\ unwrap(Digging'[p]).time = unwrap(Digging[p]).time
                /\ unwrap(Digging'[p]).progress >= unwrap(Digging[p]).progress
                /\ ~Handled(p, "StartedDigging")
             \/ /\ Handled(p, "StartedDigging")
                /\ unwrap(Digging'[p]).pos = last'.location
                /\ unwrap(Digging'[p]).progress = 0]_vars

\* a record on the stone block that two progress steps have advanced
C9_Witness ==
    \E p \in Actors :
        /\ last.player = p
        /\ last.status = "advance_one"
        /\ is_some(Digging[p])
        /\ unwrap(Digging[p]).pos = Far
        /\ unwrap(Digging[p]).time = 450
        /\ unwrap(Digging[p]).progress = 6

\* kind of block the progress pass sees at a position
SeenKind(l) == IF l \in LoadedLocations THEN blocks[l] ELSE "air"

(* C10: one progress step of an actor with a Digging record adds, with tick *)
(* rate T, (1/T)*(1/1.5)*M when the held tool's category is the block's     *)
(* defined best-tool category (M the dig multiplier of the tool material),  *)
(* else (1/T)*(1/5) when the block requires its best tool, else             *)
(* (1/T)*(1/1.5).  Progress is counted in 1/SecondScale seconds, so an      *)
(* increment inc is x seconds iff inc = x * SecondScale.                    *)
C10_ProgressIncrement ==
    [][\A p \in Actors :
          Handled(p, "advance_one")
          => LET d    == unwrap(Digging[p])
                 kind == SeenKind(d.pos)
                 hand == Inventory[p].Hotbar[HeldItem[p]]
                 inc  == unwrap(Digging'[p]).progress - d.progress
             IN  IF /\ is_some(hand)
                    /\ is_some(tool(unwrap(hand).ty))
                    /\ best_tool(kind) = tool(unwrap(hand).ty)
                 THEN inc * TPS * 3 =
                        SecondScale * 2
                          * dig_multiplier(unwrap(tool_material(unwrap(hand).ty)))
                 ELSE IF best_tool_required(kind)
                 THEN inc * TPS * 5 = SecondScale
                 ELSE inc * TPS * 3 = SecondScale * 2]_vars

\* one step with the wooden pickaxe on stone: 2 * (1/20) * (1/1.5) seconds
C10_Witness ==
    \E p \in Actors :
        /\ last.player = p
        /\ last.status = "advance_one"
        /\ HeldItem[p] = 0
        /\ is_some(Digging[p])
        /\ unwrap(Digging[p]).pos = Far
        /\ blocks[Far] = "stone"
        /\ unwrap(Digging[p]).progress * TPS * 3 = SecondScale * 2 * 2


\* the progress step the pass owes a record, from the block and the hand
ExpectedStep(p, digging) ==
    LET kind == SeenKind(digging.pos)
        hand == Inventory[p].Hotbar[HeldItem[p]]
    IN  IF /\ is_some(hand)
           /\ is_some(tool(unwrap(hand).ty))
           /\ best_tool(kind) = tool(unwrap(hand).ty)
        THEN (SecondScale * 2
                * dig_multiplier(unwrap(tool_material(unwrap(hand).ty))))
             \div (TPS * 3)
        ELSE IF best_tool_required(kind)
        THEN SecondScale \div (TPS * 5)
        ELSE (SecondScale * 2) \div (TPS * 3)

(* C11: the per-actor updates of one progress pass may run in any order.    *)
(* Each update writes only the progress of its own actor's Digging record:  *)
(* target and required time stay, no other record, block or inventory       *)
(* changes, no record appears or disappears and nothing is emitted.  At     *)
(* every point of the pass each visited record is the record the pass       *)
(* found plus exactly one step and each unvisited record is untouched, so   *)
(* the state at the end of the pass does not depend on the order and every  *)
(* actor with a record is advanced exactly once.                            *)
C11_PassOrderIndependent ==
    [][/\ last'.status = "advance_dig_progress"
          => /\ pending' = {q \in Actors : is_some(Digging[q])}
             /\ Digging' = Digging
       /\ \A p \in Actors :
             Handled(p, "advance_one")
             => /\ p \in pending
                /\ pending' = pending \ {p}
                /\ is_some(Digging[p]) /\ is_some(Digging'[p])
                /\ unwrap(Digging'[p]).pos = unwrap(Digging[p]).pos
                /\ unwrap(Digging'[p]).time = unwrap(Digging[p]).time
                /\ \A q \in Actors \ {p} : Digging'[q] = Digging[q]
                /\ UNCHANGED <<blocks, Inventory, HeldItem, ItemTimedUse,
                               disconnected, entities, Position>>
                /\ emitted' = <<>>
                /\ world_updates' = <<>>
                /\ \A q \in Actors :
                      IF q \in pending' \/ is_none(pass_start[q])
                      THEN Digging'[q] = pass_start[q]
                      ELSE Digging'[q] =
                             Some([unwrap(pass_start[q]) EXCEPT !.progress =
                                     @ + ExpectedStep(q, unwrap(pass_start[q]))])
      ]_vars

\* a pass over two digging actors has just ended, both advanced
C11_Witness ==
    /\ last.status = "advance_one"
    /\ pending = {}
    /\ \A p \in Actors :
          is_some(Digging[p]) /\ unwrap(Digging[p]).progress > 0
    /\ unwrap(Digging["p1"]).progress # unwrap(Digging["p2"]).progress


\* the held hotbar slot of a player, and the events naming it
HeldSlot(p) == Inventory[p].Hotbar[HeldItem[p]]

HeldSlotUpdate(p) ==
    [type |-> "InventoryUpdate",
     slots |-> <<[area |-> "Hotbar", slot |-> HeldItem[p]]>>,
     player |-> p]

HeldSlotDrop(p, ty, amount) ==
    [type |-> "ItemDrop",
     slot |-> <<[area |-> "Hotbar", slot |-> HeldItem[p]]>>,
     stack |-> [ty |-> ty, amount |-> amount],
     player |-> p]

ItemDrops(events) ==
    {i \in 1..Len(events) : events[i].type = "ItemDrop"}

(* C12: a drop-one-item packet acts on the held hotbar slot.  Amount 1:     *)
(* the slot is emptied and an InventoryUpdate naming exactly that slot and  *)
(* an ItemDrop of amount 1 are emitted.  Amount 0: the slot is emptied and  *)
(* only the InventoryUpdate is emitted.  Amount N >= 2: the slot keeps the  *)
(* item type with amount N-1 and one ItemDrop of amount 1 of that type is   *)
(* emitted.  Empty slot: nothing changes and nothing is emitted.            *)
C12_DropOneItem ==
    [][\A p \in Actors :
          Handled(p, "DropItem")
          => IF is_none(HeldSlot(p))
             THEN /\ Inventory' = Inventory
                  /\ emitted' = <<>>
             ELSE LET stack == unwrap(HeldSlot(p)) IN
                  CASE stack.amount = 1 ->
                         /\ is_none(Inventory'[p].Hotbar[HeldItem[p]])
                         /\ emitted' = <<HeldSlotUpdate(p),
                                         HeldSlotDrop(p, stack.ty, 1)>>
                    [] stack.amount = 0 ->
                         /\ is_none(Inventory'[p].Hotbar[HeldItem[p]])
                         /\ emitted' = <<HeldSlotUpdate(p)>>
                    [] OTHER ->
                         /\ Inventory'[p].Hotbar[HeldItem[p]] =
                               <<[ty |-> stack.ty, amount |-> stack.amount - 1]>>
                         /\ Cardinality(ItemDrops(emitted')) = 1
                         /\ \A i \in ItemDrops(emitted') :
                               emitted'[i] = HeldSlotDrop(p, stack.ty, 1)]_vars

\* the last item of a stack has just been dropped: slot empty, two events
C12_Witness ==
    \E p \in Actors :
        /\ last.player = p
        /\ last.status = "DropItem"
        /\ is_none(HeldSlot(p))
        /\ emitted = <<HeldSlotUpdate(p), HeldSlotDrop(p, "tipped_arrow", 1)>>

\* number of items in a slot
SlotAmount(content) == IF is_some(content) THEN unwrap(content).amount ELSE 0

(* C13: a drop-full-stack packet on a held stack of amount N > 0 empties    *)
(* the slot and emits one InventoryUpdate for that slot followed by one     *)
(* ItemDrop of the same item type and amount N.  For every drop packet the  *)
(* ItemDrop amounts add up to the amount taken out of the slot, and no      *)
(* other slot of any inventory changes.                                     *)
C13_DropStackConservesItems ==
    [][\A p \in Actors :
          ( Handled(p, "DropItem") \/ Handled(p, "DropItemStack") )
          => /\ ( /\ last'.status = "DropItemStack"
                  /\ SlotAmount(HeldSlot(p)) > 0 )
                => /\ is_none(Inventory'[p].Hotbar[HeldItem[p]])
                   /\ emitted' =
                        <<HeldSlotUpdate(p),
                          HeldSlotDrop(p, unwrap(HeldSlot(p)).ty,
                                       unwrap(HeldSlot(p)).amount)>>
             /\ Cardinality(ItemDrops(emitted')) <= 1
             /\ IF ItemDrops(emitted') = {}
                THEN SlotAmount(Inventory'[p].Hotbar[HeldItem[p]])
                        = SlotAmount(HeldSlot(p))
                ELSE \A i \in ItemDrops(emitted') :
                        /\ emitted'[i].stack.ty = unwrap(HeldSlot(p)).ty
                        /\ emitted'[i].stack.amount =
                              SlotAmount(HeldSlot(p))
                              - SlotAmount(Inventory'[p].Hotbar[HeldItem[p]])
             /\ \A q \in Actors \ {p} : Inventory'[q] = Inventory[q]
             /\ Inventory'[p].Offhand = Inventory[p].Offhand
             /\ Inventory'[p].Main = Inventory[p].Main
             /\ \A i \in HotbarSlots \ {HeldItem[p]} :
                   Inventory'[p].Hotbar[i] = Inventory[p].Hotbar[i]]_vars

\* a stack of three spectral arrows has just been dropped whole
C13_Witness ==
    \E p \in Actors :
        /\ last.player = p
        /\ last.status = "DropItemStack"
        /\ HeldItem[p] = 3
        /\ is_none(HeldSlot(p))
        /\ emitted = <<HeldSlotUpdate(p), HeldSlotDrop(p, "spectral_arrow", 3)>>


\* the player holds a bow in the selected hotbar slot
HoldsBow(p) == is_some(HeldSlot(p)) /\ unwrap(HeldSlot(p)).ty = "bow"

(* C14: a bow release (consume-item packet) from an actor without           *)
(* Charge-Use record is a complete no-op: no projectile is spawned, no      *)
(* EntitySpawn is emitted, no Charge-Use record is created or removed, and  *)
(* inventories, Digging records and the world are unchanged.                *)
C14_ReleaseWithoutChargeNoOp ==
    [][\A p \in Actors :
          ( Handled(p, "ConsumeItem") /\ is_none(ItemTimedUse[p]) )
          => /\ entities' = entities
             /\ emitted' = <<>>
             /\ ItemTimedUse' = ItemTimedUse
             /\ Inventory' = Inventory
             /\ Digging' = Digging
             /\ blocks' = blocks
             /\ disconnected' = disconnected
             /\ world_updates' = <<>>]_vars

\* a player holding the bow released it with arrows at hand and no draw
\* on record, while the other player's draw stayed on record
C14_Witness ==
    \E p \in Actors :
        /\ last.player = p
        /\ last.status = "ConsumeItem"
        /\ HoldsBow(p)
        /\ is_none(ItemTimedUse[p])
        /\ is_some(arrow_to_consume)
        /\ is_none(consumed_use)
        /\ entities = <<>>
        /\ \E q \in Actors \ {p} : is_some(ItemTimedUse[q])

(* C15: a Charge-Use record is consumed exactly once.  A release with the   *)
(* bow held and the record present removes the record, spawns exactly one   *)
(* projectile and emits exactly one EntitySpawn, for that projectile.  Any  *)
(* other release (no record, or the held slot empty or not a bow) spawns    *)
(* nothing and leaves every Charge-Use record as it is.                     *)
C15_ChargeConsumedOnce ==
    [][\A p \in Actors :
          Handled(p, "ConsumeItem")
          => IF HoldsBow(p) /\ is_some(ItemTimedUse[p])
             THEN /\ is_none(ItemTimedUse'[p])
                  /\ \A q \in Actors \ {p} : ItemTimedUse'[q] = ItemTimedUse[q]
                  /\ Len(entities') = Len(entities) + 1
                  /\ SubSeq(entities', 1, Len(entities)) = entities
                  /\ emitted' = <<[type |-> "EntitySpawn",
                                   entity |-> entities'[Len(entities')]]>>
             ELSE /\ ItemTimedUse' = ItemTimedUse
                  /\ entities' = entities
                  /\ emitted' = <<>>]_vars

\* a release has just consumed a draw and spawned the one arrow
C15_Witness ==
    \E p \in Actors :
        /\ last.player = p
        /\ last.status = "ConsumeItem"
        /\ HoldsBow(p)
        /\ is_some(consumed_use)
        /\ is_none(ItemTimedUse[p])
        /\ Len(entities) = 1
        /\ emitted = <<[type |-> "EntitySpawn", entity |-> entities[1]]>>

(* C16: the held-ticks value a release hands to the charge curve is         *)
(* min(current_tick - charge_start_tick, 20): exactly 20 whenever more      *)
(* than 20 ticks elapsed, and always within 0..20.                          *)
C16_ChargeClamped ==
    [][\A p \in Actors :
          ( /\ Handled(p, "ConsumeItem")
            /\ HoldsBow(p)
            /\ is_some(ItemTimedUse[p]) )
          => LET elapsed == tick_count - unwrap(ItemTimedUse[p]).tick_start
                 arrow   == entities'[Len(entities')]
             IN  /\ elapsed >= 0
                 /\ arrow.held_for \in 0..20
                 /\ elapsed > 20 => arrow.held_for = 20
                 /\ elapsed <= 20 => arrow.held_for = elapsed]_vars

\* an arrow released 22 ticks after the draw began carries 20 ticks
C16_Witness ==
    \E p \in Actors :
        /\ last.player = p
        /\ last.status = "ConsumeItem"
        /\ is_some(consumed_use)
        /\ tick_count - unwrap(consumed_use).tick_start = 22
        /\ Len(entities) = 1
        /\ entities[1].held_for = 20


\* the step is a break attempt of p at l: a start-dig that breaks at once,
\* or a finish-dig the handler accepts
StartBreaks(p, l) ==
    /\ Handled(p, "StartedDigging")
    /\ last'.location = l
    /\ p \in CanBreak
    /\ InRange(p, l)
    /\ (SeenHardness(l) < 3 \/ p \in CanInstaBreak)

FinishBreaks(p, l) ==
    /\ Handled(p, "FinishedDigging")
    /\ last'.location = l
    /\ p \in CanBreak
    /\ IF is_some(Digging[p]) THEN unwrap(Digging[p]).pos = l
                              ELSE p \in CanInstaBreak

(* C17: a break attempt (a start-dig that breaks at once, or an accepted    *)
(* finish-dig) on a block of an unloaded region disconnects the actor and   *)
(* changes no block; on a loaded region the block becomes empty and the     *)
(* actor is not disconnected.  A finish-dig emits FinishDigging for the     *)
(* actor also after a failed break.                                         *)
C17_BreakFailureDisconnects ==
    [][\A p \in Actors : \A l \in Locations :
          /\ ( StartBreaks(p, l) \/ FinishBreaks(p, l) )
             => IF l \in LoadedLocations
                THEN /\ blocks' = [blocks EXCEPT ![l] = "air"]
                     /\ disconnected' = disconnected
                ELSE /\ blocks' = blocks
                     /\ world_updates' = <<>>
                     /\ p \notin disconnected
                     /\ disconnected' = disconnected \cup {p}
          /\ FinishBreaks(p, l)
             => /\ Len(emitted') = 1
                /\ emitted'[1].type = "FinishDigging"
                /\ emitted'[1].player = p
                /\ emitted'[1].digging.pos = l]_vars

\* a finish-dig on the unloaded position: disconnected, event still sent
C17_Witness ==
    \E p \in Actors :
        /\ last.player = p
        /\ last.status = "FinishedDigging"
        /\ last.location = Void
        /\ p \in disconnected
        /\ world_updates = <<>>
        /\ blocks = InitialBlocks
        /\ Len(emitted) = 1
        /\ emitted[1].type = "FinishDigging"
        /\ emitted[1].digging.pos = Void


\* the step belongs to the per-tick progress pass
TickStep == last'.status \in {"advance_dig_progress", "advance_one"}

(* C18: a dig completes only by a finish-dig message.  A finish-dig of an   *)
(* actor with break capability whose location equals the record's target    *)
(* removes the record and breaks the block whatever the progress is (zero   *)
(* or below the required time included).  A step of the per-tick pass       *)
(* breaks no block, removes no record and emits no FinishDigging, also      *)
(* when a progress has passed its required time.                            *)
C18_OnlyFinishCompletes ==
    [][/\ \A p \in Actors :
            ( /\ Handled(p, "FinishedDigging")
              /\ p \in CanBreak
              /\ is_some(Digging[p])
              /\ unwrap(Digging[p]).pos = last'.location )
            => /\ Digging'[p] = None
               /\ last'.location \in LoadedLocations
                    => /\ blocks' = [blocks EXCEPT ![last'.location] = "air"]
                       /\ Len(world_updates') = 1
                       /\ world_updates'[1].pos = last'.location
       /\ TickStep
            => /\ blocks' = blocks
               /\ world_updates' = <<>>
               /\ disconnected' = disconnected
               /\ emitted' = <<>>
               /\ \A p \in Actors : is_some(Digging[p]) => is_some(Digging'[p])
      ]_vars

\* a finish-dig broke the snow although the progress was below the time,
\* while the other actor's record has a progress above its time and stands
C18_Witness ==
    \E p, q \in Actors :
        /\ last.player = p
        /\ last.status = "FinishedDigging"
        /\ Len(emitted) = 1
        /\ emitted[1].type = "FinishDigging"
        /\ emitted[1].digging.time = 30
        /\ emitted[1].digging.progress < 30
        /\ blocks[Near] = "air"
        /\ Digging[p] = None
        /\ is_some(Digging[q])
        /\ unwrap(Digging[q]).progress > unwrap(Digging[q]).time


\* the step emitted a dig event of the given type for p
EmittedFor(p, type) ==
    \E i \in 1..Len(emitted') :
        emitted'[i].type = type /\ emitted'[i].player = p

RecordAdded(p) == is_none(Digging[p]) /\ is_some(Digging'[p])

RecordRemoved(p) == is_some(Digging[p]) /\ is_none(Digging'[p])

(* C19 as stated: StartDigging and FinishDigging follow the Digging record  *)
(* one-to-one.  A step emits StartDigging for an actor exactly when it adds *)
(* a record to that actor, and emits FinishDigging exactly when it removes  *)
(* the actor's record, the event carrying the removed record (so the two    *)
(* events alternate per actor, starting with StartDigging).                 *)
C19_EventsTrackRecord ==
    [][\A p \in Actors :
          /\ EmittedFor(p, "StartDigging") <=> RecordAdded(p)
          /\ EmittedFor(p, "FinishDigging") <=> RecordRemoved(p)
          /\ \A i \in 1..Len(emitted') :
                (emitted'[i].type = "FinishDigging" /\ emitted'[i].player = p)
                    => Some(emitted'[i].digging) = Digging[p]]_vars


\* the step of p tried to break the block at l: it set it to air, or it
\* failed on it and disconnected p
BreakAttempt(p, l) ==
    /\ last'.player = p
    /\ last'.status \in {"StartedDigging", "FinishedDigging"}
    /\ \/ l \in LoadedLocations /\ blocks'[l] # blocks[l]
       \/ /\ l \notin LoadedLocations
          /\ last'.location = l
          /\ p \in disconnected' \ disconnected

(* C20 as stated: every block break, or break attempt, caused by a          *)
(* start-dig or finish-dig has passed the capability and distance gating:   *)
(* the actor has break capability and the block is within squared distance  *)
(* 36 of the actor's position (positions do not change in this model, so    *)
(* the position at the message and at the record's start-dig coincide).     *)
C20_BreaksAreGated ==
    [][\A p \in Actors : \A l \in Locations :
          BreakAttempt(p, l) => (p \in CanBreak /\ InRange(p, l))]_vars

====
